---- MODULE Spec2Model ----
(***************************************************************************)
(* A model of patent_fetcher.py: the microdata tree walker (parse_tag,     *)
(* parse_children, parse_siblings, property_value), the label normaliser   *)
(* (parse_label), the section dispatcher (parse_sections) with its three   *)
(* sub-parsers, and the process-wide visited set `hack`.                   *)
(*                                                                         *)
(* A Python str is a sequence of one-character strings.  A Python value    *)
(* (None | str | dict | list) is a record [kind, val]; a dict is the       *)
(* sequence of its <<key, value>> pairs in insertion order.  A parsed      *)
(* document is a tree of nodes [name, attrs, kids, text]; a node is        *)
(* addressed by its path (the child indices from the BeautifulSoup root),  *)
(* and id(tag) is ids[path].                                               *)
(***************************************************************************)
EXTENDS Integers, Sequences, FiniteSets, TLC

VARIABLES
    doc,      \* the parsed tree of the document handed to the current call
    ids,      \* id(tag) of every tag of doc: path -> address
    hack,     \* the module-level set `hack` of visited ids
    result,   \* what the last call returned (a value, or an error)
    trace,    \* ghost: what the tree walker did during the last parse call
    stale,    \* ghost: the tags of doc whose id an earlier call left in hack
    first,    \* ghost: what the first parse call of this process returned
    calls     \* number of calls made so far

vars == <<doc, ids, hack, result, trace, stale, first, calls>>

(***************************************************************************)
(* Python str                                                              *)
(***************************************************************************)
\* The characters of the model are those of Latin-1 (U+0000 to U+00FF),
\* U+1680, and the characters str.lower and str.capitalize make of them:
\* U+0178, U+039C and U+03BC.  U+0178 (capital Y with diaeresis) cannot be
\* written in a string of this language: the string below stands for that one
\* character.
Y_DIAERESIS == "U+0178"
\* The cased characters, upper case then lower case: str.lower maps the
\* first of a pair to the second.
CasePairs ==
    { <<"A","a">>, <<"B","b">>, <<"C","c">>, <<"D","d">>, <<"E","e">>,
      <<"F","f">>, <<"G","g">>, <<"H","h">>, <<"I","i">>, <<"J","j">>,
      <<"K","k">>, <<"L","l">>, <<"M","m">>, <<"N","n">>, <<"O","o">>,
      <<"P","p">>, <<"Q","q">>, <<"R","r">>, <<"S","s">>, <<"T","t">>,
      <<"U","u">>, <<"V","v">>, <<"W","w">>, <<"X","x">>, <<"Y","y">>,
      <<"Z","z">>, <<"À","à">>, <<"Á","á">>, <<"Â","â">>, <<"Ã","ã">>,
      <<"Ä","ä">>, <<"Å","å">>, <<"Æ","æ">>, <<"Ç","ç">>, <<"È","è">>,
      <<"É","é">>, <<"Ê","ê">>, <<"Ë","ë">>, <<"Ì","ì">>, <<"Í","í">>,
      <<"Î","î">>, <<"Ï","ï">>, <<"Ð","ð">>, <<"Ñ","ñ">>, <<"Ò","ò">>,
      <<"Ó","ó">>, <<"Ô","ô">>, <<"Õ","õ">>, <<"Ö","ö">>, <<"Ø","ø">>,
      <<"Ù","ù">>, <<"Ú","ú">>, <<"Û","û">>, <<"Ü","ü">>, <<"Ý","ý">>,
      <<"Þ","þ">>, <<Y_DIAERESIS,"ÿ">>, <<"Μ","μ">> }
\* The characters str.capitalize changes when they come first, each with the
\* str it becomes (its title case): the lower case of every pair above, and
\* two characters more ("ß" becomes two characters)
TitlePairs ==
    { <<p[2], <<p[1]>>>> : p \in CasePairs }
    \cup { <<"ß", <<"S", "s">>>>, <<"µ", <<"Μ">>>> }
DigitSeq == <<"1","2","3","4","5","6","7","8","9">>
\* the characters c of the model with c.isalnum()
AlnumChars ==
    { "0", "1", "2", "3", "4", "5", "6", "7", "8", "9", "A", "B", "C", "D",
      "E", "F", "G", "H", "I", "J", "K", "L", "M", "N", "O", "P", "Q", "R",
      "S", "T", "U", "V", "W", "X", "Y", "Z", "a", "b", "c", "d", "e", "f",
      "g", "h", "i", "j", "k", "l", "m", "n", "o", "p", "q", "r", "s", "t",
      "u", "v", "w", "x", "y", "z", "ª", "²", "³", "µ", "¹", "º", "¼", "½",
      "¾", "À", "Á", "Â", "Ã", "Ä", "Å", "Æ", "Ç", "È", "É", "Ê", "Ë", "Ì",
      "Í", "Î", "Ï", "Ð", "Ñ", "Ò", "Ó", "Ô", "Õ", "Ö", "Ø", "Ù", "Ú", "Û",
      "Ü", "Ý", "Þ", "ß", "à", "á", "â", "ã", "ä", "å", "æ", "ç", "è", "é",
      "ê", "ë", "ì", "í", "î", "ï", "ð", "ñ", "ò", "ó", "ô", "õ", "ö", "ø",
      "ù", "ú", "û", "ü", "ý", "þ", "ÿ", Y_DIAERESIS, "Μ", "μ" }
\* the characters c of the model with c.isspace(), those str.strip() and
\* str.split() drop (U+2000 to U+200A, U+2028, U+2029, U+202F, U+205F and
\* U+3000 are whitespace too and cannot be written in a string here)
SpaceChars ==
    { "\t", "\n", "", "\f", "\r", "", "", "", "", " ", "", " ", " " }

Range(s) == { s[i] : i \in DOMAIN s }

IsAlnum(c) == c \in AlnumChars
IsSpace(c) == c \in SpaceChars

\* c.lower() for one character
LowerChar(c) ==
    IF \E p \in CasePairs : p[1] = c
    THEN (CHOOSE p \in CasePairs : p[1] = c)[2] ELSE c
\* c.capitalize() for one character: the title case of c, a str of one or
\* two characters
UpperChar(c) ==
    IF \E p \in TitlePairs : p[1] = c
    THEN (CHOOSE p \in TitlePairs : p[1] = c)[2] ELSE <<c>>

\* str.lower()
Lower(s) == [i \in DOMAIN s |-> LowerChar(s[i])]
\* str.capitalize(): first character title-cased, all the others lower-cased
CapitalizeFirstOnly(s) == IF s = <<>> THEN <<>> ELSE UpperChar(s[1]) \o Tail(s)
Capitalize(s) == IF s = <<>> THEN <<>> ELSE UpperChar(s[1]) \o Lower(Tail(s))

\* str.strip()
RECURSIVE LStrip(_)
LStrip(s) == IF s # <<>> /\ IsSpace(Head(s)) THEN LStrip(Tail(s)) ELSE s
RECURSIVE RStrip(_)
RStrip(s) ==
    IF s # <<>> /\ IsSpace(s[Len(s)]) THEN RStrip(SubSeq(s, 1, Len(s) - 1)) ELSE s
Strip(s) == RStrip(LStrip(s))

\* str.split(): the maximal runs of non-whitespace characters, in order
RECURSIVE SplitFrom(_, _, _)
SplitFrom(s, cur, acc) ==
    IF s = <<>> THEN (IF cur = <<>> THEN acc ELSE Append(acc, cur))
    ELSE IF IsSpace(Head(s))
         THEN SplitFrom(Tail(s), <<>>, IF cur = <<>> THEN acc ELSE Append(acc, cur))
         ELSE SplitFrom(Tail(s), Append(cur, Head(s)), acc)
Split(s) == SplitFrom(s, <<>>, <<>>)

\* "".join(parts)
RECURSIVE Join(_)
Join(parts) == IF parts = <<>> THEN <<>> ELSE Head(parts) \o Join(Tail(parts))

(***************************************************************************)
(* Python values: None | str | dict | list                                 *)
(***************************************************************************)
NoneV == [kind |-> "none", val |-> <<>>]
StrV(s) == [kind |-> "str", val |-> s]
DictV(pairs) == [kind |-> "dict", val |-> pairs]
ListV(items) == [kind |-> "list", val |-> items]
\* an exception that ended the call
ErrorV(e) == [kind |-> "error", val |-> e]

\* bool(v) for the values an attribute lookup can give
Truthy(v) == v.kind \in {"str", "list"} /\ v.val # <<>>

\* dict operations on the insertion-ordered pair list
Keys(pairs) == { pairs[i][1] : i \in DOMAIN pairs }
HasKey(pairs, k) == k \in Keys(pairs)
Get(pairs, k) == pairs[CHOOSE i \in DOMAIN pairs : pairs[i][1] = k][2]
\* d[k] = v: an existing key keeps its position
Put(pairs, k, v) ==
    IF HasKey(pairs, k)
    THEN [i \in DOMAIN pairs |-> IF pairs[i][1] = k THEN <<k, v>> ELSE pairs[i]]
    ELSE Append(pairs, <<k, v>>)
\* dict(iterable of pairs)
RECURSIVE FromPairs(_, _)
FromPairs(items, acc) ==
    IF items = <<>> THEN acc
    ELSE FromPairs(Tail(items), Put(acc, Head(items)[1], Head(items)[2]))
ToDict(items) == FromPairs(items, <<>>)

(***************************************************************************)
(* Names used by the code                                                  *)
(***************************************************************************)
S_itemprop == <<"i","t","e","m","p","r","o","p">>
S_itemscope == <<"i","t","e","m","s","c","o","p","e">>
S_repeat == <<"r","e","p","e","a","t">>
S_content == <<"c","o","n","t","e","n","t">>
S_href == <<"h","r","e","f">>
S_src == <<"s","r","c">>
S_class == <<"c","l","a","s","s">>
S_num == <<"n","u","m">>
S_text == <<"t","e","x","t">>
S_heading == <<"h","e","a","d","i","n","g">>
S_lines == <<"l","i","n","e","s">>
S_parts == <<"p","a","r","t","s">>
S_abstract == <<"a","b","s","t","r","a","c","t">>
S_description == <<"d","e","s","c","r","i","p","t","i","o","n">>
S_claims == <<"c","l","a","i","m","s">>
S_claim == <<"c","l","a","i","m">>
S_claim_text == <<"c","l","a","i","m","-","t","e","x","t">>
S_description_line ==
    <<"d","e","s","c","r","i","p","t","i","o","n","-","l","i","n","e">>

START_TAGS == {"dt", "h2"}

(***************************************************************************)
(* The parsed tree (BeautifulSoup): Tag and NavigableString nodes          *)
(***************************************************************************)
TextName == "#text"
Tag(name, attrs, kids) == [name |-> name, attrs |-> attrs, kids |-> kids, text |-> <<>>]
Text(s) == [name |-> TextName, attrs |-> <<>>, kids |-> <<>>, text |-> s]
Soup(kids) == Tag("[document]", <<>>, kids)

IsTag(n) == n.name # TextName

RECURSIVE NodeAt(_, _)
NodeAt(d, p) == IF p = <<>> THEN d ELSE NodeAt(d.kids[Head(p)], Tail(p))

Front(p) == SubSeq(p, 1, Len(p) - 1)
Last(p) == p[Len(p)]
IsPrefix(p, q) == Len(p) <= Len(q) /\ SubSeq(q, 1, Len(p)) = p

\* tag.descendants: the paths below p, in document order
RECURSIVE Descendants(_, _)
RECURSIVE DescendantsFrom(_, _, _)
DescendantsFrom(d, p, i) ==
    IF i > Len(NodeAt(d, p).kids) THEN <<>>
    ELSE <<Append(p, i)>> \o Descendants(d, Append(p, i)) \o DescendantsFrom(d, p, i + 1)
Descendants(d, p) == DescendantsFrom(d, p, 1)

TagPaths(d, p) == SelectSeq(Descendants(d, p), LAMBDA q : IsTag(NodeAt(d, q)))
\* every tag of the tree, the root object excluded
AllTags(d) == TagPaths(d, <<>>)

\* tag.has_attr(key), tag.get(key)
HasAttr(n, k) == HasKey(n.attrs, k)
AttrGet(n, k) == IF HasKey(n.attrs, k) THEN Get(n.attrs, k) ELSE NoneV

\* tag.string: the single NavigableString child, looked for through single children
RECURSIVE TagString(_)
TagString(n) ==
    IF Len(n.kids) # 1 THEN NoneV
    ELSE IF IsTag(n.kids[1]) THEN TagString(n.kids[1])
         ELSE StrV(n.kids[1].text)

\* tag.get_text(strip=True): every descendant string stripped, the empty ones
\* dropped, joined with no separator
RECURSIVE GetText(_)
RECURSIVE GetTextFrom(_, _)
GetTextFrom(kids, i) ==
    IF i > Len(kids) THEN <<>> ELSE GetText(kids[i]) \o GetTextFrom(kids, i + 1)
GetText(n) == IF IsTag(n) THEN GetTextFrom(n.kids, 1) ELSE Strip(n.text)

\* has_class(tag, class_name)
has_class(n, c) ==
    LET classes == AttrGet(n, S_class)
    IN  Truthy(classes) /\ classes.kind = "list" /\ StrV(c) \in Range(classes.val)

\* tag.find_all(...): the descendant tags of p that match, in document order;
\* tag.find(...): the first of them, <<>> for None
FindAllName(d, p, name) == SelectSeq(TagPaths(d, p), LAMBDA q : NodeAt(d, q).name = name)
FindAllClass(d, p, c) == SelectSeq(TagPaths(d, p), LAMBDA q : has_class(NodeAt(d, q), c))
FirstOf(all) == IF all = <<>> THEN <<>> ELSE <<all[1]>>
FindName(d, p, name) == FirstOf(FindAllName(d, p, name))
FindClass(d, p, c) == FirstOf(FindAllClass(d, p, c))

(***************************************************************************)
(* parse_label                                                             *)
(***************************************************************************)
RECURSIVE LabelParts(_, _)
LabelParts(words, i) ==
    IF i > Len(words) \/ ~IsAlnum(words[i][1]) THEN <<>>
    ELSE <<IF i = 1 THEN Lower(words[i]) ELSE Capitalize(words[i])>>
         \o LabelParts(words, i + 1)

parse_label(tag) ==
    LET raw == TagString(tag)
    IN  IF raw.kind # "str" THEN <<>>
        ELSE Join(LabelParts(Split(Strip(raw.val)), 1))

(***************************************************************************)
(* The tree walker.  The walker's state st is the module-level set hack,   *)
(* the dict current_node the call writes to (node), the exception that is  *)
(* propagating (err, "" for none), and ghost fields: owner is the element  *)
(* whose dict node is (RootOwner for parse's data), log the elements       *)
(* processed past the visited check, skips the elements parse_tag returned *)
(* on at once, writes the assignments made.  d is the tree, f is id().     *)
(***************************************************************************)
RootOwner == <<0>>

WalkStart(h) ==
    [hack |-> h, node |-> <<>>, err |-> "", owner |-> RootOwner,
     log |-> <<>>, skips |-> <<>>, writes |-> <<>>]

\* the state on return from a call that filled a fresh dict: the caller's
\* current_node is current again
Back(sub, st) == [sub EXCEPT !.node = st.node, !.owner = st.owner]
\* a fresh dict {} owned by element p
Fresh(st, p) == [st EXCEPT !.node = <<>>, !.owner = p]

\* current_node[k] = v, made while walking element p
Assign(st, p, k, v) ==
    [st EXCEPT !.node = Put(st.node, k, v),
               !.writes = Append(@, [elem |-> p, key |-> k, into |-> st.owner])]

\* lines 161-170: append to the list at current_node[k], or assign
StoreNoList(st, p, n, k, v) == Assign(st, p, k, v)
Store(st, p, n, k, v) ==
    IF HasAttr(n, S_repeat)
    THEN LET node1 == IF HasKey(st.node, k) THEN st.node
                      ELSE Put(st.node, k, ListV(<<>>))
             cur == Get(node1, k)
         IN  IF cur.kind = "list"
             THEN Assign([st EXCEPT !.node = node1], p, k, ListV(Append(cur.val, v)))
             ELSE [st EXCEPT !.node = node1, !.err = "AttributeError"]
    ELSE Assign(st, p, k, v)

\* lines 113-127 of property_value: the value of a tag that is no scope
ScalarValueByPresence(n, property_name) ==
    IF HasAttr(n, S_content) THEN AttrGet(n, S_content)
    ELSE IF HasAttr(n, S_href) THEN AttrGet(n, S_href)
    ELSE IF HasAttr(n, S_src) THEN AttrGet(n, S_src)
    ELSE IF property_name = S_content THEN StrV(GetText(n))
    ELSE LET text == TagString(n)
         IN  IF text.kind # "str" THEN NoneV ELSE StrV(Strip(text.val))
ScalarValue(n, property_name) ==
    IF Truthy(AttrGet(n, S_content)) THEN AttrGet(n, S_content)
    ELSE IF Truthy(AttrGet(n, S_href)) THEN AttrGet(n, S_href)
    ELSE IF Truthy(AttrGet(n, S_src)) THEN AttrGet(n, S_src)
    ELSE IF property_name = S_content THEN StrV(GetText(n))
    ELSE LET text == TagString(n)
         IN  IF text.kind # "str" THEN NoneV ELSE StrV(Strip(text.val))

\* line 131: the visited check
VisitedNever(st, a) == FALSE
Visited(st, a) == a \in st.hack

\* line 100: a sibling that starts the next group
IsStartNever(n) == FALSE
IsStart(n) == n.name \in START_TAGS

RECURSIVE parse_tag(_, _, _, _)
RECURSIVE parse_children_from(_, _, _, _, _)
RECURSIVE parse_siblings_from(_, _, _, _, _)
RECURSIVE property_value(_, _, _, _, _)

\* parse_children: the loop from child i on
parse_children_from(d, f, p, i, st) ==
    IF i > Len(NodeAt(d, p).kids) \/ st.err # "" THEN st
    ELSE IF ~IsTag(NodeAt(d, p).kids[i]) THEN parse_children_from(d, f, p, i + 1, st)
    ELSE parse_children_from(d, f, p, i + 1, parse_tag(d, f, Append(p, i), st))

\* parse_siblings of a child of parent: the loop from sibling j on
parse_siblings_from(d, f, parent, j, st) ==
    IF j > Len(NodeAt(d, parent).kids) \/ st.err # "" THEN st
    ELSE IF ~IsTag(NodeAt(d, parent).kids[j])
         THEN parse_siblings_from(d, f, parent, j + 1, st)
    ELSE IF IsStart(NodeAt(d, parent).kids[j]) THEN st
    ELSE parse_siblings_from(d, f, parent, j + 1, parse_tag(d, f, Append(parent, j), st))

\* property_value: [st, value]
property_value(d, f, property_name, p, st) ==
    LET n == NodeAt(d, p)
    IN  IF HasAttr(n, S_itemscope)
        THEN LET sub == parse_children_from(d, f, p, 1, Fresh(st, p))
             IN  [st |-> Back(sub, st), value |-> DictV(sub.node)]
        ELSE [st |-> st, value |-> ScalarValue(n, property_name)]

parse_tag(d, f, p, st) ==
    LET n == NodeAt(d, p)
    IN  IF st.err # "" THEN st
        ELSE IF Visited(st, f[p]) THEN [st EXCEPT !.skips = Append(@, p)]
        ELSE LET s1 == [st EXCEPT !.hack = @ \cup {f[p]}, !.log = Append(@, p)]
             IN  IF n.name \in START_TAGS
                 THEN LET label == parse_label(n)
                          sub == parse_siblings_from(d, f, Front(p), Last(p) + 1, Fresh(s1, p))
                      IN  IF sub.err # "" THEN Back(sub, s1)
                          ELSE Assign(Back(sub, s1), p, label, DictV(sub.node))
                 ELSE LET property_name == AttrGet(n, S_itemprop)
                      IN  IF ~Truthy(property_name) THEN parse_children_from(d, f, p, 1, s1)
                          ELSE IF n.name = "section" THEN s1
                          ELSE LET pv == property_value(d, f, property_name.val, p, s1)
                               IN  IF pv.st.err # "" THEN pv.st
                                   ELSE Store(pv.st, p, n, property_name.val, pv.value)

parse_children(d, f, p, st) == parse_children_from(d, f, p, 1, st)
parse_siblings(d, f, p, st) == parse_siblings_from(d, f, Front(p), Last(p) + 1, st)

(***************************************************************************)
(* The section sub-parsers.  Each returns [err, value].                    *)
(***************************************************************************)
Ok(v) == [err |-> "", value |-> v]
Raise(e) == [err |-> e, value |-> NoneV]

\* attrs_except_class, and the same loop inlined in parse_description and
\* parse_claims
attrs_except_class(n) == SelectSeq(n.attrs, LAMBDA kv : kv[1] # S_class)
description_attrs(n) == SelectSeq(n.attrs, LAMBDA kv : kv[1] # S_class)
claims_attrs(n) == SelectSeq(n.attrs, LAMBDA kv : kv[1] # S_class)
\* line 202: abstract.attrs.items()
abstract_attrs(n) == n.attrs

\* lines 198-203
parse_abstract_unasserted(d, section) ==
    LET abstract == FindName(d, section, "abstract")
    IN  IF abstract = <<>> THEN Ok(DictV(<<>>))
        ELSE LET n == NodeAt(d, abstract[1])
             IN  Ok(DictV(ToDict(abstract_attrs(n) \o <<<<S_content, StrV(GetText(n))>>>>)))
parse_abstract(d, section) ==
    LET abstract == FindName(d, section, "abstract")
    IN  IF abstract = <<>> THEN Raise("AssertionError")
        ELSE LET n == NodeAt(d, abstract[1])
             IN  Ok(DictV(ToDict(abstract_attrs(n) \o <<<<S_content, StrV(GetText(n))>>>>)))

\* is_target of parse_description
is_target(n) == n.name = "heading" \/ has_class(n, S_description_line)
new_part(heading) == <<<<S_heading, StrV(heading)>>, <<S_lines, ListV(<<>>)>>>>
AddLine(part, line) ==
    Put(part, S_lines, ListV(Append(Get(part, S_lines).val, DictV(line))))

\* the loop of lines 225-236 from target i on: the list parts at its end
RECURSIVE DescriptionParts(_, _, _, _, _)
DescriptionParts(d, targets, i, parts, current_part) ==
    IF i > Len(targets) THEN Append(parts, DictV(current_part))
    ELSE LET n == NodeAt(d, targets[i])
             text == GetText(n)
         IN  IF n.name = "heading"
             THEN DescriptionParts(d, targets, i + 1,
                                   Append(parts, DictV(current_part)), new_part(text))
             ELSE DescriptionParts(d, targets, i + 1, parts,
                    AddLine(current_part,
                            <<<<S_num, AttrGet(n, S_num)>>, <<S_text, StrV(text)>>>>))

parse_description(d, section) ==
    LET description == FindClass(d, section, S_description)
    IN  IF description = <<>> THEN Raise("AssertionError")
        ELSE LET n == NodeAt(d, description[1])
                 targets == SelectSeq(TagPaths(d, description[1]),
                                      LAMBDA q : is_target(NodeAt(d, q)))
                 parts == DescriptionParts(d, targets, 1, <<>>, new_part(<<>>))
             IN  Ok(DictV(ToDict(description_attrs(n) \o <<<<S_parts, ListV(parts)>>>>)))

\* text_tag.find_parent(has_class claim): the nearest proper ancestor with
\* the class "claim", or <<>> for None
RECURSIVE find_parent(_, _)
find_parent(d, q) ==
    IF q = <<>> THEN <<>>
    ELSE IF has_class(NodeAt(d, Front(q)), S_claim) THEN <<Front(q)>>
         ELSE find_parent(d, Front(q))

\* line 279: a claim not yet yielded
IsNewAlways(seen_tags, claim) == TRUE
IsNew(seen_tags, claim) == claim \notin seen_tags

\* find_claims: the loop from text tag i on; [err, claims]
RECURSIVE find_claims_from(_, _, _, _, _)
find_claims_from(d, text_tags, i, seen_tags, out) ==
    IF i > Len(text_tags) THEN [err |-> "", claims |-> out]
    ELSE LET claim == find_parent(d, text_tags[i])
         IN  IF claim = <<>> THEN [err |-> "AssertionError", claims |-> out]
             ELSE find_claims_from(d, text_tags, i + 1, seen_tags \cup {claim[1]},
                     IF IsNew(seen_tags, claim[1]) THEN Append(out, claim[1]) ELSE out)

find_claims(d, claims_tag) ==
    find_claims_from(d, FindAllClass(d, claims_tag, S_claim_text),
                     1, {}, <<>>)

parse_claim(d, claim) ==
    LET n == NodeAt(d, claim)
    IN  DictV(ToDict(attrs_except_class(n) \o <<<<S_text, StrV(GetText(n))>>>>))

parse_claims(d, section) ==
    LET claims_tag == FindClass(d, section, S_claims)
    IN  IF claims_tag = <<>> THEN Raise("AssertionError")
        ELSE LET n == NodeAt(d, claims_tag[1])
                 found == find_claims(d, claims_tag[1])
                 parsed_claims == [i \in DOMAIN found.claims |-> parse_claim(d, found.claims[i])]
             IN  IF found.err # "" THEN Raise(found.err)
                 ELSE Ok(DictV(ToDict(claims_attrs(n) \o <<<<S_claims, ListV(parsed_claims)>>>>)))

(***************************************************************************)
(* parse_sections and parse                                                *)
(***************************************************************************)
\* is_section of parse_sections
is_section(n) == n.name = "section" /\ HasAttr(n, S_itemscope)

\* lines 178-191: the value stored for one section
section_value(d, section) ==
    LET n == NodeAt(d, section)
    IN  IF ~HasAttr(n, S_itemprop) THEN Raise("KeyError")
        ELSE LET property_name == AttrGet(n, S_itemprop).val
             IN  IF property_name = S_abstract THEN parse_abstract(d, section)
                 ELSE IF property_name = S_description THEN parse_description(d, section)
                 ELSE IF property_name = S_claims THEN parse_claims(d, section)
                 ELSE Ok(NoneV)

\* the loop of parse_sections from section i on: [err, node]
RECURSIVE parse_sections_from(_, _, _, _)
parse_sections_from(d, sections, i, node) ==
    IF i > Len(sections) THEN [err |-> "", node |-> node]
    ELSE LET r == section_value(d, sections[i])
         IN  IF r.err # "" THEN [err |-> r.err, node |-> node]
             ELSE parse_sections_from(d, sections, i + 1,
                     Put(node, AttrGet(NodeAt(d, sections[i]), S_itemprop).val, r.value))

parse_sections(d, article, node) ==
    parse_sections_from(d, SelectSeq(TagPaths(d, article),
                                     LAMBDA q : is_section(NodeAt(d, q))), 1, node)

\* parse(html) on the tree d of html, with id() = f and the module's hack = h:
\* what it returns (or the exception), the hack it leaves, and the walk
parse(d, f, h) ==
    LET root == FindName(d, <<>>, "html")
        article == FindName(d, root[1], "article")
        st == parse_tag(d, f, article[1], WalkStart(h))
        sec == parse_sections(d, article[1], st.node)
    IN  IF root = <<>> \/ article = <<>>
        THEN [result |-> ErrorV("AssertionError"), hack |-> h, walk |-> WalkStart(h)]
        ELSE IF st.err # "" THEN [result |-> ErrorV(st.err), hack |-> st.hack, walk |-> st]
        ELSE IF sec.err # "" THEN [result |-> ErrorV(sec.err), hack |-> st.hack, walk |-> st]
        ELSE [result |-> DictV(sec.node), hack |-> st.hack, walk |-> st]

(***************************************************************************)
(* id(): the addresses of the tags of a freshly built tree.  Every tag of  *)
(* one tree is a live object, so the tags of a tree have distinct          *)
(* addresses.  The trees of earlier calls are garbage, so a new tag may    *)
(* get an address that an earlier call left in hack: st is the set of tags *)
(* this happens to.  Addresses are only compared for equality, so which    *)
(* old address a stale tag gets makes no difference: the stale tags take   *)
(* the smallest addresses of h in document order, the other tags take      *)
(* addresses above every address of h.                                     *)
(***************************************************************************)
MaxOf(S) == IF S = {} THEN 0 ELSE CHOOSE a \in S : \A b \in S : b <= a
NthOf(S, k) == CHOOSE a \in S : Cardinality({b \in S : b < a}) = k - 1
IndexOf(seq, x) == CHOOSE i \in DOMAIN seq : seq[i] = x

Alloc(d, st, h) ==
    LET tags == AllTags(d)
        staleSeq == SelectSeq(tags, LAMBDA q : q \in st)
    IN  [q \in Range(tags) |->
            IF q \in st THEN NthOf(h, IndexOf(staleSeq, q))
            ELSE MaxOf(h) + IndexOf(tags, q)]

\* lines 136-159 and 109-111: parse_tag goes on to the children of a tag
\* that starts no group and is either no property or a scope other than a
\* section
Descends(n) ==
    /\ n.name \notin START_TAGS
    /\ \/ ~Truthy(AttrGet(n, S_itemprop))
       \/ n.name # "section" /\ HasAttr(n, S_itemscope)

\* the tags below and including p that parse_tag can be called on, whatever
\* ids are stale and whatever the dicts hold: p, and the same for the tag
\* children of p when parse_tag goes on to them (the siblings parse_siblings
\* passes on are children of a tag whose children parse_children passes on)
RECURSIVE WalkableFrom(_, _)
WalkableFrom(d, p) ==
    LET n == NodeAt(d, p)
    IN  {p} \cup
        IF Descends(n)
        THEN UNION { WalkableFrom(d, Append(p, i)) :
                        i \in { j \in DOMAIN n.kids : IsTag(n.kids[j]) } }
        ELSE {}

\* the tags of d parse_tag can be called on
Walkable(d) ==
    LET root == FindName(d, <<>>, "html")
        article == IF root = <<>> THEN <<>> ELSE FindName(d, root[1], "article")
    IN  IF article = <<>> THEN {} ELSE WalkableFrom(d, article[1])

(***************************************************************************)
(* Bounds                                                                  *)
(***************************************************************************)
\* parse calls one process makes
MaxCalls == 2
\* children of the article element
MaxKids == 3

\* the sets of tags of a new tree whose address an earlier call left in h:
\* any tags, as many as h has addresses (the id of a tag parse_tag is never
\* called on is never read, so only the tags of Walkable are told apart)
StaleSets(d, h) ==
    { S \in SUBSET Walkable(d) : Cardinality(S) <= Cardinality(h) }

(***************************************************************************)
(* The process: it holds one document text and calls parse on it           *)
(***************************************************************************)
NoResult == [kind |-> "nothing", val |-> <<>>]

InitProcess ==
    /\ ids = <<>>
    /\ hack = {}
    /\ result = NoResult
    /\ trace = WalkStart({})
    /\ stale = {}
    /\ first = NoResult
    /\ calls = 0

\* one call parse(html), html being the text of doc
Parse ==
    /\ calls < MaxCalls
    /\ \E S \in StaleSets(doc, hack) :
          LET f == Alloc(doc, S, hack)
              r == parse(doc, f, hack)
          IN  /\ ids' = f
              /\ hack' = r.hack
              /\ result' = r.result
              /\ trace' = r.walk
              /\ stale' = S
              /\ first' = IF calls = 0 THEN r.result ELSE first
    /\ calls' = calls + 1
    /\ UNCHANGED doc

Next == Parse

(***************************************************************************)
(* Documents: <html><article> kids </article></html>                       *)
(***************************************************************************)
Article(kids) == Soup(<<Tag("html", <<>>, <<Tag("article", <<>>, kids)>>)>>)
ArticlePath == <<1, 1>>
ArticleKids == NodeAt(doc, ArticlePath).kids
KidPath(i) == Append(ArticlePath, i)

SeqsUpTo(S, n) == UNION { [1..k -> S] : k \in 0..n }

Flag(k) == <<<<k, StrV(<<>>)>>>>
Prop(name) == <<<<S_itemprop, StrV(name)>>>>

S_name == <<"n","a","m","e">>

\* group headers and an accumulating property
H_ipc == Tag("dt", <<>>, <<Text(<<"I","P","C">>)>>)
H_legal == Tag("h2", <<>>, <<Text(<<"L","e","g","a","l"," ","E","v","e","n","t","s">>)>>)
P_alice == Tag("span", Prop(S_name) \o Flag(S_repeat), <<Text(<<" ","A","l","i","c","e"," ">>)>>)

GroupKids == {H_ipc, H_legal, P_alice}
GroupDocs == { Article(k) : k \in SeqsUpTo(GroupKids, MaxKids) }

Init == doc \in GroupDocs /\ InitProcess
Spec == Init /\ [][Next]_vars

\* a property of the same name that does not accumulate
P_bob == Tag("span", Prop(S_name) \o Flag(S_repeat), <<Text(<<"B","o","b">>)>>)
Q_al == Tag("span", Prop(S_name), <<Text(<<"A","l">>)>>)

AccumKids == {P_alice, P_bob, Q_al}
AccumDocs == { Article(k) : k \in SeqsUpTo(AccumKids, MaxKids) }

InitAccum == doc \in AccumDocs /\ InitProcess
SpecAccum == InitAccum /\ [][Next]_vars

(***************************************************************************)
(* Claims about the walker, checked under Spec                             *)
(***************************************************************************)
NoDuplicates(seq) == \A i, j \in DOMAIN seq : i # j => seq[i] # seq[j]

\* C1: parse is deterministic: every later call of the process on the same
\* document text returns the Record the first call returned, whatever the
\* earlier calls left in the visited set.
C1_Deterministic == calls >= 2 => result = first

\* the last walk processed element p past the visited check
Processed(p) == p \in Range(trace.log)
\* the addresses the visited set held of the tree's tags when the last walk
\* started, and when it had just marked element p
StartHack == { ids[q] : q \in stale }
HackAt(p) ==
    StartHack \cup { ids[trace.log[m]] : m \in 1..IndexOf(trace.log, p) }

\* the assignments the last walk made while at element p
WritesOf(p) == { i \in DOMAIN trace.writes : trace.writes[i].elem = p }

\* C7: within one parse call every element is processed by the walker at
\* most once, and a walk of an element already walked changes no Record: no
\* element is behind two assignments, and an element the walker returned on
\* at once without ever processing it is behind none.
C7_VisitedOnce ==
    /\ NoDuplicates(trace.log)
    /\ \A p \in Range(trace.log) : Cardinality(WritesOf(p)) <= 1
    /\ \A p \in Range(trace.skips) \ Range(trace.log) : WritesOf(p) = {}

\* C7 witness: in the first call of the process (no stale id) the parent's
\* child loop reached an element that a header's group had consumed, and
\* that element is behind exactly one assignment.
C7_Witness ==
    /\ calls = 1
    /\ \E p \in Range(trace.skips) :
          p \in Range(trace.log) /\ Cardinality(WritesOf(p)) = 1

IsHeaderKid(i) == IsTag(ArticleKids[i]) /\ ArticleKids[i].name \in START_TAGS
\* header i, then one or more non-header elements and nothing else, then
\* header j
IsRun(i, j) ==
    /\ i + 1 < j
    /\ IsHeaderKid(i) /\ IsHeaderKid(j)
    /\ \A k \in (i + 1)..(j - 1) : IsTag(ArticleKids[k]) /\ ~IsHeaderKid(k)
LabelOf(i) == parse_label(ArticleKids[i])

\* the Record got by walking the article's children a..b, and nothing else,
\* into an empty Record, the visited set being h
RECURSIVE WalkKids(_, _, _)
WalkKids(a, b, st) ==
    IF a > b THEN st ELSE WalkKids(a + 1, b, parse_tag(doc, ids, KidPath(a), st))
RecordOfKids(a, b, h) == WalkKids(a, b, WalkStart(h)).node

Below(p) == { q \in Range(AllTags(doc)) : IsPrefix(p, q) }
\* no assignment made at or below one of the children i+1..j-1 went into the
\* Record of header j
NoneUnder(i, j) ==
    \A w \in Range(trace.writes) :
        (\E k \in (i + 1)..(j - 1) : w.elem \in Below(KidPath(k)))
            => w.into # KidPath(j)

Grouped(i, j) ==
    /\ HasKey(result.val, LabelOf(i))
    /\ Get(result.val, LabelOf(i))
          = DictV(RecordOfKids(i + 1, j - 1, HackAt(KidPath(i))))
    /\ NoneUnder(i, j)

\* C2 as stated: for a header the walker processes, followed by N non-header
\* siblings and another header, the Record parse returns holds, under the
\* first header's label, the sub-record with the properties of exactly
\* those N siblings, and the second header's sub-record got none of them.
C2_Original ==
    result.kind = "dict" =>
        \A i, j \in DOMAIN ArticleKids :
            (IsRun(i, j) /\ Processed(KidPath(i))) => Grouped(i, j)

\* no later header among the parent's children has the label of header i
LastWithLabel(i) ==
    \A k \in DOMAIN ArticleKids : (k > i /\ IsHeaderKid(k)) => LabelOf(k) # LabelOf(i)

\* C2 amended: the same, provided no later header among the parent's
\* children has the first header's label.
C2_Grouping ==
    result.kind = "dict" =>
        \A i, j \in DOMAIN ArticleKids :
            (IsRun(i, j) /\ Processed(KidPath(i)) /\ LastWithLabel(i))
                => Grouped(i, j)

\* C2 witness: a header, one or more property siblings, a header with
\* another label, and the first header's sub-record holds a property.
C2_Witness ==
    /\ result.kind = "dict"
    /\ \E i, j \in DOMAIN ArticleKids :
          /\ IsRun(i, j) /\ LabelOf(i) # LabelOf(j)
          /\ Processed(KidPath(i))
          /\ LastWithLabel(i)
          /\ HasKey(result.val, LabelOf(i))
          /\ Get(result.val, LabelOf(i)).val # <<>>

(***************************************************************************)
(* Accumulation, checked under SpecAccum                                   *)
(***************************************************************************)
\* child i of the article, no header and no section, carries a property name
\* and the accumulation marker
IsAccumKid(i) ==
    /\ IsTag(ArticleKids[i])
    /\ ArticleKids[i].name \notin START_TAGS \cup {"section"}
    /\ Truthy(AttrGet(ArticleKids[i], S_itemprop))
    /\ HasAttr(ArticleKids[i], S_repeat)
NameOfKid(i) == AttrGet(ArticleKids[i], S_itemprop).val
\* the value of a child whose only content is its text
TextValueOfKid(i) == StrV(Strip(ArticleKids[i].kids[1].text))

\* the walker's state before and after the walk of child i of the article
\* in the last call
BeforeKid(i) == WalkKids(1, i - 1, WalkStart(HackAt(ArticlePath)))
AfterKid(i) == parse_tag(doc, ids, KidPath(i), BeforeKid(i))
\* the walk of the article reaches child i, which is not yet visited
Reached(i) ==
    /\ Processed(ArticlePath)
    /\ BeforeKid(i).err = ""
    /\ ~Visited(BeforeKid(i), ids[KidPath(i)])

ListBefore(i) ==
    IF HasKey(BeforeKid(i).node, NameOfKid(i))
    THEN Get(BeforeKid(i).node, NameOfKid(i)).val ELSE <<>>
Appended(i) ==
    /\ AfterKid(i).err = ""
    /\ HasKey(AfterKid(i).node, NameOfKid(i))
    /\ Get(AfterKid(i).node, NameOfKid(i))
          = ListV(Append(ListBefore(i), TextValueOfKid(i)))

\* C3 as stated: whatever the Record holds, the walk of an element with a
\* property name and the accumulation marker appends the element's value to
\* the list at that key, creating the list on first use.
C3_Original ==
    calls >= 1 =>
        \A i \in DOMAIN ArticleKids : (IsAccumKid(i) /\ Reached(i)) => Appended(i)

KeyFree(i) ==
    \/ ~HasKey(BeforeKid(i).node, NameOfKid(i))
    \/ Get(BeforeKid(i).node, NameOfKid(i)).kind = "list"

\* the values of the children 1..i the walk does not skip, in document order
RECURSIVE TextValues(_)
TextValues(i) ==
    IF i = 0 THEN <<>>
    ELSE IF KidPath(i) \in stale THEN TextValues(i - 1)
    ELSE Append(TextValues(i - 1), TextValueOfKid(i))

\* C3 amended: the walk of a not yet visited element, no header and no
\* section, with a property name and the accumulation marker appends its value when the key is absent or
\* holds a list, and raises (the parse call fails) when the key holds
\* anything else; a parse of accumulating elements only, all of one name,
\* returns the list of the values of those it walks, in document order.
C3_Accumulate ==
    calls >= 1 =>
        /\ \A i \in DOMAIN ArticleKids :
              (IsAccumKid(i) /\ Reached(i)) =>
                  IF KeyFree(i) THEN Appended(i)
                  ELSE AfterKid(i).err = "AttributeError" /\ result.kind = "error"
        /\ (Processed(ArticlePath) /\ \A i \in DOMAIN ArticleKids : IsAccumKid(i))
              => result = DictV(IF TextValues(Len(ArticleKids)) = <<>> THEN <<>>
                                ELSE <<<<S_name, ListV(TextValues(Len(ArticleKids)))>>>>)

\* C3 witness: two accumulating elements of one name were walked and the
\* key holds their two values, in document order.
C3_Witness ==
    /\ calls >= 1 /\ Len(ArticleKids) >= 2
    /\ \A i \in DOMAIN ArticleKids : IsAccumKid(i) /\ Reached(i)
    /\ ArticleKids[1] # ArticleKids[2]
    /\ result = DictV(<<<<S_name, ListV(TextValues(Len(ArticleKids)))>>>>)

(***************************************************************************)
(* Property values, checked under SpecValue: the article holds one         *)
(* annotated element                                                       *)
(***************************************************************************)
S_url == <<"u","r","l">>

\* an attribute that is absent, present and empty, or present with a value
OptAttr(k, v) == { <<>>, <<<<k, StrV(<<>>)>>>>, <<<<k, StrV(v)>>>> }

ValueKidSets ==
    { <<>>,
      <<Text(<<" ","t"," ">>)>>,
      <<Tag("b", <<>>, <<Text(<<"t"," ">>)>>)>>,
      <<Text(<<"a"," ">>), Tag("b", <<>>, <<Text(<<" ","b">>)>>)>>,
      <<Tag("span", Prop(S_name), <<Text(<<"n">>)>>)>> }

ValueElems ==
    { Tag("span", Prop(nm) \o sc \o c \o h \o sr, kids) :
        nm \in {S_content, S_url}, sc \in {<<>>, Flag(S_itemscope)},
        c \in OptAttr(S_content, <<"c">>), h \in OptAttr(S_href, <<"/","h">>),
        sr \in OptAttr(S_src, <<"/","s">>), kids \in ValueKidSets }
ValueDocs == { Article(<<e>>) : e \in ValueElems }

InitValue == doc \in ValueDocs /\ InitProcess
SpecValue == InitValue /\ [][Next]_vars

Elem == ArticleKids[1]
ElemName == AttrGet(Elem, S_itemprop).val
\* the value parse stored for the element
Stored == Get(result.val, ElemName)
\* the Record the walker builds from the element's children
NestedRecord ==
    DictV(parse_children(doc, ids, KidPath(1), WalkStart(HackAt(KidPath(1)))).node)
DirectText ==
    IF TagString(Elem).kind = "str" THEN StrV(Strip(TagString(Elem).val)) ELSE NoneV

Present(k) == HasAttr(Elem, k)
NonEmpty(k) == Truthy(AttrGet(Elem, k))

\* the first matching rule decides, a rule on an attribute matching when
\* Has(attribute) holds
Precedence(Has(_)) ==
    /\ HasKey(result.val, ElemName)
    /\ HasAttr(Elem, S_itemscope) => Stored = NestedRecord
    /\ (~HasAttr(Elem, S_itemscope) /\ Has(S_content))
          => Stored = AttrGet(Elem, S_content)
    /\ (~HasAttr(Elem, S_itemscope) /\ ~Has(S_content) /\ Has(S_href))
          => Stored = AttrGet(Elem, S_href)
    /\ (~HasAttr(Elem, S_itemscope) /\ ~Has(S_content) /\ ~Has(S_href) /\ Has(S_src))
          => Stored = AttrGet(Elem, S_src)
    /\ (~HasAttr(Elem, S_itemscope) /\ ~Has(S_content) /\ ~Has(S_href) /\ ~Has(S_src)
          /\ ElemName = S_content)
          => Stored = StrV(GetText(Elem))
    /\ (~HasAttr(Elem, S_itemscope) /\ ~Has(S_content) /\ ~Has(S_href) /\ ~Has(S_src)
          /\ ElemName # S_content)
          => Stored = DirectText

\* C8 as stated: the value of an annotated element the walker processes is
\* that of the first rule that matches (scope, content, href, src, property
\* name "content", direct text or null), a rule on an attribute matching
\* whenever the attribute is present, even with the empty string as its
\* value.
C8_Original ==
    (result.kind = "dict" /\ Processed(KidPath(1))) => Precedence(Present)

\* C8 amended: the same precedence, a rule on content, href or src matching
\* only when the attribute is present with a non-empty value (an empty one
\* is passed over as if absent).
C8_Precedence ==
    (result.kind = "dict" /\ Processed(KidPath(1))) => Precedence(NonEmpty)

\* C8 witness: an element with an empty content attribute and a non-empty
\* href got the href as its value.
C8_Witness ==
    /\ result.kind = "dict" /\ Processed(KidPath(1))
    /\ ~HasAttr(Elem, S_itemscope)
    /\ Present(S_content) /\ ~NonEmpty(S_content) /\ NonEmpty(S_href)
    /\ Stored = AttrGet(Elem, S_href)

(***************************************************************************)
(* Sections, checked under SpecSections                                    *)
(***************************************************************************)
\* section elements of one document
MaxSections == 2

Scoped(name) == Prop(name) \o Flag(S_itemscope)
Sec(attrs, kids) == Tag("section", attrs, kids)
AbstractTag(kids) == Tag("abstract", <<>>, kids)
WidgetText == Text(<<"A"," ","w",".">>)

\* a scoped abstract section whose text sits in an annotated element
SEC_abstract ==
    Sec(Scoped(S_abstract), <<AbstractTag(<<Tag("b", Prop(S_name), <<WidgetText>>)>>)>>)
\* the same section without the scope attribute
SEC_noscope ==
    Sec(Prop(S_abstract), <<AbstractTag(<<Tag("b", Prop(S_name), <<WidgetText>>)>>)>>)
\* a scoped section without a property name
SEC_noprop == Sec(Flag(S_itemscope), <<WidgetText>>)
\* a scoped section of an unrecognized name
SEC_other == Sec(Scoped(<<"x">>), <<>>)
\* a scoped section of a recognized name without its fixed-role element
SEC_empty(name) == Sec(Scoped(name), <<Tag("div", <<>>, <<WidgetText>>)>>)

SectionKids == {SEC_abstract, SEC_noscope, SEC_noprop, SEC_other, SEC_empty(S_abstract)}
SectionDocs ==
    { Article(k) : k \in SeqsUpTo(SectionKids, MaxSections) }
    \cup { Article(<<SEC_empty(nm)>>) : nm \in {S_description, S_claims} }
    \cup { Soup(<<Tag("div", <<>>, <<SEC_abstract>>)>>),
           Soup(<<Tag("article", <<>>, <<SEC_abstract>>)>>),
           Soup(<<Tag("html", <<>>, <<Tag("div", <<>>, <<SEC_abstract>>)>>)>>) }

InitSections == doc \in SectionDocs /\ InitProcess
SpecSections == InitSections /\ [][Next]_vars

TagsOf(d) == Range(AllTags(d))
Named(name) == { q \in TagsOf(doc) : NodeAt(doc, q).name = name }
Inside(p) == { q \in TagsOf(doc) : IsPrefix(p, q) /\ q # p }

\* the document has no html element, or no article element inside one
NoArticle ==
    \A h \in Named("html") : Named("article") \cap Inside(h) = {}
\* the sections the dispatcher handles: scoped section elements in the
\* article
ScopedSections ==
    { q \in Named("section") :
        /\ \E a \in Named("article") : q \in Inside(a)
        /\ HasAttr(NodeAt(doc, q), S_itemscope) }
HasRole(q, name) ==
    \E r \in Inside(q) :
        \/ name = S_abstract /\ NodeAt(doc, r).name = "abstract"
        \/ name # S_abstract /\ has_class(NodeAt(doc, r), name)
\* a scoped section lacks its property name, or its fixed-role descendant
BadSection(q) ==
    \/ ~HasAttr(NodeAt(doc, q), S_itemprop)
    \/ \E name \in {S_abstract, S_description, S_claims} :
          AttrGet(NodeAt(doc, q), S_itemprop) = StrV(name) /\ ~HasRole(q, name)

\* C6: a document without a root html element or without an article in it,
\* or with a scoped section that lacks its property name or its fixed-role
\* descendant, makes parse end in an error: no Record is returned.
C6_ContractViolation ==
    (calls >= 1 /\ (NoArticle \/ \E q \in ScopedSections : BadSection(q)))
        => result.kind = "error"

\* C6 witness: the second scoped section of a document lacks its abstract
\* element, the first is well formed, and parse ended in an error.
C6_Witness ==
    /\ calls >= 1 /\ ~NoArticle /\ result.kind = "error"
    /\ Len(ArticleKids) = 2
    /\ ArticleKids[1] = SEC_abstract /\ ArticleKids[2] = SEC_empty(S_abstract)

\* C10: a section element with a property name is skipped by the walker
\* (no assignment is made at it or below it) and handled by the dispatcher
\* later in the call: the Record parse returns has a value at the section's
\* property name.
C10_Handover ==
    result.kind = "dict" =>
        \A q \in Named("section") :
            Truthy(AttrGet(NodeAt(doc, q), S_itemprop)) =>
                /\ \A w \in Range(trace.writes) : ~IsPrefix(q, w.elem)
                /\ HasKey(result.val, AttrGet(NodeAt(doc, q), S_itemprop).val)

(***************************************************************************)
(* Attributes of the fixed-role elements, checked under SpecAttrs: the     *)
(* article holds one scoped section of a recognized name                   *)
(***************************************************************************)
S_lang == <<"l","a","n","g">>
Class(c) == <<<<S_class, ListV(<<StrV(c)>>)>>>>

\* the field a sub-parser emits after the attributes
FixedField(name) ==
    IF name = S_abstract THEN S_content
    ELSE IF name = S_description THEN S_parts ELSE S_claims

\* the attributes besides class: a number, a language, and one named as the
\* sub-parser's own field
OtherAttrs(name) ==
    { n \o l \o c :
        n \in OptAttr(S_num, <<"1">>), l \in {<<>>, <<<<S_lang, StrV(<<"e","n">>)>>>>},
        c \in {<<>>, <<<<FixedField(name), StrV(<<"c">>)>>>>} }

RoleElems(name) ==
    IF name = S_abstract
    THEN { Tag("abstract", c \o o, <<WidgetText>>) :
             c \in {<<>>, Class(<<"a">>)}, o \in OtherAttrs(name) }
    ELSE { Tag("div", o, <<WidgetText>>) :
             o \in { Class(name) \o a : a \in OtherAttrs(name) }
                   \cup { a \o Class(name) : a \in OtherAttrs(name) } }

AttrDocs ==
    UNION { { Article(<<Sec(Scoped(name), <<e>>)>>) : e \in RoleElems(name) } :
              name \in {S_abstract, S_description, S_claims} }

InitAttrs == doc \in AttrDocs /\ InitProcess
SpecAttrs == InitAttrs /\ [][Next]_vars

SectionName == AttrGet(ArticleKids[1], S_itemprop).val
RoleElem == ArticleKids[1].kids[1]
SectionRecord == Get(result.val, SectionName).val

\* C9: each of the three section sub-parsers emits every attribute of its
\* fixed-role element except class: the section's Record has no key class
\* (none of the sub-parsers' own fields is named class), and it has a field
\* for every other attribute, holding the attribute's value unless the
\* sub-parser's own field has that name.
C9_AttrsExceptClass ==
    result.kind = "dict" =>
        /\ HasKey(result.val, SectionName)
        /\ ~HasKey(SectionRecord, S_class)
        /\ \A k \in Keys(RoleElem.attrs) \ {S_class} :
              /\ HasKey(SectionRecord, k)
              /\ k # FixedField(SectionName)
                    => Get(SectionRecord, k) = AttrGet(RoleElem, k)

(***************************************************************************)
(* Claim items, checked under SpecClaims: the article holds one scoped     *)
(* claims section                                                          *)
(***************************************************************************)
\* children of the claims block
MaxItems == 2

Num(i) == <<<<S_num, StrV(i)>>>>
\* an item wrapper, an item-text leaf, and an element that is neither
Wrap(i, kids) == Tag("div", Num(i) \o Class(S_claim), kids)
Leaf(kids) == Tag("div", Class(S_claim_text), kids)
Plain(kids) == Tag("div", <<>>, kids)
LeafText == Text(<<" ","t",".">>)

\* the i-th child of the claims block
ItemKids(i) ==
    { \* one leaf, right below the wrapper
      Wrap(i, <<Leaf(<<LeafText>>)>>),
      \* two leaves at different depths below one wrapper
      Wrap(i, <<Plain(<<Leaf(<<LeafText>>), Plain(<<Leaf(<<LeafText>>)>>)>>)>>),
      \* two wrappers in a wrapper, each before a leaf of the outer one
      Wrap(i, <<Wrap(i \o <<"b">>, <<Leaf(<<LeafText>>)>>), Leaf(<<LeafText>>),
                Wrap(i \o <<"c">>, <<Leaf(<<LeafText>>)>>), Leaf(<<LeafText>>)>>),
      \* a wrapper without a leaf
      Wrap(i, <<LeafText>>),
      \* an element that is wrapper and leaf
      Tag("div", Num(i) \o <<<<S_class, ListV(<<StrV(S_claim), StrV(S_claim_text)>>)>>>>,
          <<Leaf(<<LeafText>>)>>),
      \* a leaf without a wrapper
      Leaf(<<LeafText>>) }

Digit(i) == <<DigitSeq[i]>>
ItemSeqs(n) ==
    { k \in SeqsUpTo(UNION { ItemKids(Digit(i)) : i \in 1..n }, n) :
        \A i \in DOMAIN k : k[i] \in ItemKids(Digit(i)) }

ClaimsDoc(attrs, kids) ==
    Article(<<Sec(Scoped(S_claims) \o attrs, <<Tag("div", Class(S_claims), kids)>>)>>)
\* the claims blocks, and the shorter ones also in a section that is itself
\* class-marked as an item
ClaimsDocs ==
    { ClaimsDoc(<<>>, k) : k \in ItemSeqs(MaxItems) }
    \cup { ClaimsDoc(Class(S_claim), k) : k \in ItemSeqs(MaxItems - 1) }

InitClaims == doc \in ClaimsDocs /\ InitProcess
SpecClaims == InitClaims /\ [][Next]_vars

ClaimsTag == ArticlePath \o <<1, 1>>
\* the item-text leaves of the claims block
Leaves == { q \in Inside(ClaimsTag) : has_class(NodeAt(doc, q), S_claim_text) }
ItemAncestors(q) ==
    { p \in { SubSeq(q, 1, k) : k \in 0..(Len(q) - 1) } :
        has_class(NodeAt(doc, p), S_claim) }
\* the nearest ancestor of q class-marked as an item
Nearest(q) ==
    CHOOSE p \in ItemAncestors(q) : \A r \in ItemAncestors(q) : Len(r) <= Len(p)
Wrapped == { q \in Leaves : ItemAncestors(q) # {} }
Items == { Nearest(q) : q \in Wrapped }
\* element a comes before element b in document order
DocBefore(a, b) ==
    \/ Len(a) < Len(b) /\ IsPrefix(a, b)
    \/ \E k \in 1..Len(a) :
          k <= Len(b) /\ SubSeq(a, 1, k - 1) = SubSeq(b, 1, k - 1) /\ a[k] < b[k]
\* the items in the order of the first leaf, in document order, whose
\* nearest item each is
ItemOrder ==
    LET leaves == Wrapped
        near == [q \in leaves |-> Nearest(q)]
        items == { near[q] : q \in leaves }
        seen == [p \in items |->
                    CHOOSE m \in leaves :
                        /\ near[m] = p
                        /\ \A n \in leaves : near[n] = p => (n = m \/ DocBefore(m, n))]
        rank == [p \in items |->
                    Cardinality({ r \in items : DocBefore(seen[r], seen[p]) }) + 1]
    IN  [k \in 1..Cardinality(items) |-> CHOOSE p \in items : rank[p] = k]

ParsedClaims == Get(Get(result.val, S_claims).val, S_claims).val

\* C4: find_claims returns, for the item-text leaves taken in document
\* order, the nearest item ancestor of each, each ancestor once, in the
\* order it was first seen: the list of claims parse returns has as many
\* entries as there are distinct nearest item ancestors, whatever the depth
\* of the leaves, and the entry at an ancestor's rank is that ancestor's;
\* parse fails exactly when a leaf has no item ancestor.
C4_ItemDedup ==
    calls >= 1 =>
        LET order == ItemOrder
        IN  /\ result.kind = "error" <=> \E q \in Leaves : ItemAncestors(q) = {}
            /\ result.kind = "dict" =>
                  /\ Len(order) = Cardinality(Items)
                  /\ NoDuplicates(order)
                  /\ find_claims(doc, ClaimsTag).claims = order
                  /\ ParsedClaims = [k \in DOMAIN order |-> parse_claim(doc, order[k])]

\* C4 witness: one wrapper with a leaf right below it, another with two
\* leaves at greater, different depths, and parse returned two claims.
C4_Witness ==
    /\ result.kind = "dict" /\ Len(ParsedClaims) = 2
    /\ Cardinality(Leaves) = 3
    /\ \E q \in Leaves : Len(q) = Len(ClaimsTag) + 2
    /\ \E q \in Leaves : Len(q) = Len(ClaimsTag) + 4
    /\ \A q \in Leaves : Len(Nearest(q)) = Len(ClaimsTag) + 1

(***************************************************************************)
(* Labels, checked under SpecLabel: the article holds one header           *)
(***************************************************************************)
\* characters of a label text
MaxLabelLen == 4

LabelChars == {"a", "B", " ", ":"}
T_publication ==
    <<"P","u","b","l","i","c","a","t","i","o","n"," ","n","u","m","b","e","r",":">>
T_ipc == <<"I","P","C">>
T_legal == <<"L","e","g","a","l"," ","E","v","e","n","t","s">>
LabelTexts ==
    SeqsUpTo(LabelChars, MaxLabelLen)
    \cup { T_publication, T_ipc, T_legal, <<"2","n","d"," ","\t","C","L","A","I","M">>,
           <<":"," ","a">>, <<"\n","a","B"," ","(","c",")"," ","d">>,
           <<"n","u","m","é","r","o"," ","é","t","É">>, <<"Ü"," ","ß","A"," ","²">>,
           <<"\r","F","o","o","\r","b","a","r","\f">>, <<"a"," ","b","","µ">>,
           <<"a"," ","ÿ","b">>, <<"x"," ","ÿ","É">>, <<"Μ","ÿ"," ","μ","Μ">> }
\* an element without text has no child at all
LabelDocs ==
    { Article(<<Tag(h, <<>>, IF t = <<>> THEN <<>> ELSE <<Text(t)>>)>>) :
        h \in START_TAGS, t \in LabelTexts }

InitLabel == doc \in LabelDocs /\ InitProcess
SpecLabel == InitLabel /\ [][Next]_vars

LabelText == IF ArticleKids[1].kids = <<>> THEN <<>> ELSE ArticleKids[1].kids[1].text
\* the label the header was stored under
StoredLabel == result.val[1][1]

\* position i of text t starts a word
WordStart(t, i) == ~IsSpace(t[i]) /\ (i = 1 \/ IsSpace(t[i - 1]))
\* position i of t is in a word that is retained: no word up to it starts
\* with a character that is not alphanumeric
Retained(t, i) ==
    /\ ~IsSpace(t[i])
    /\ \A j \in 1..i : WordStart(t, j) => IsAlnum(t[j])
InFirstWord(t, i) == Cardinality({ j \in 1..i : WordStart(t, j) }) = 1
\* the retained characters of t: those of the first word lower-cased, the
\* first of a later word upper-cased (title-cased), the rest of it changed
\* by Rest
Normalized(t, Rest(_)) ==
    LET kept == SelectSeq([i \in 1..Len(t) |-> i], LAMBDA i : Retained(t, i))
    IN  Join([k \in DOMAIN kept |->
                IF InFirstWord(t, kept[k]) THEN <<LowerChar(t[kept[k]])>>
                ELSE IF WordStart(t, kept[k]) THEN UpperChar(t[kept[k]])
                ELSE <<Rest(t[kept[k]])>>])
Unchanged(c) == c

HeaderStored ==
    /\ result.kind = "dict" /\ Processed(KidPath(1))
    /\ Len(result.val) = 1 /\ result.val[1][2] = DictV(<<>>)

\* C5 as stated: parse_label returns the words before the first word whose
\* first character is not alphanumeric, joined with no separator, the first
\* lower-cased entirely, every later one with its first character
\* upper-cased and the rest unchanged; "Publication number:" gives
\* "publicationNumber".
C5_Original ==
    (calls >= 1 /\ Processed(KidPath(1))) =>
        /\ HeaderStored
        /\ StoredLabel = Normalized(LabelText, Unchanged)
        /\ LabelText = T_publication
              => StoredLabel = <<"p","u","b","l","i","c","a","t","i","o","n",
                                 "N","u","m","b","e","r">>

\* C5 amended: the same, every later retained word having its first
\* character upper-cased (title-cased: a sharp s gives "Ss") and the rest
\* lower-cased; "Publication number:"
\* gives "publicationNumber:", "IPC" gives "ipc", "Legal Events" gives
\* "legalEvents", and a text with no alphanumeric-leading word gives the
\* empty string.
C5_LabelNormalized ==
    (calls >= 1 /\ Processed(KidPath(1))) =>
        /\ HeaderStored
        /\ StoredLabel = Normalized(LabelText, LowerChar)
        /\ LabelText = T_publication
              => StoredLabel = <<"p","u","b","l","i","c","a","t","i","o","n",
                                 "N","u","m","b","e","r",":">>
        /\ LabelText = T_ipc => StoredLabel = <<"i","p","c">>
        /\ LabelText = T_legal
              => StoredLabel = <<"l","e","g","a","l","E","v","e","n","t","s">>
        /\ (\A i \in DOMAIN LabelText :
                WordStart(LabelText, i) => ~IsAlnum(LabelText[i]))
              => StoredLabel = <<>>

\* C5 witness: a header whose second word has an upper-case character after
\* its first was stored with that character lower-cased.
C5_Witness ==
    /\ HeaderStored
    /\ LabelText = <<"a"," ","a","B">>
    /\ StoredLabel = <<"a","A","b">>

====
